---- MODULE Spec2Model ----
(***************************************************************************)
(* Model of untis_to_icloud.py: one sync pass (main) mirrors the lessons   *)
(* fetched from WebUntis into a CalDAV calendar.  The calendar store, the  *)
(* wall clock and the timetable source are the environment; the event      *)
(* builder and the reconciliation loops are translated from the source.    *)
(***************************************************************************)
EXTENDS Integers, Sequences, FiniteSets

VARIABLES
    UNTIS_SERVER,    \* os.getenv("UNTIS_SERVER")
    DELETE_MISSING,  \* os.getenv("DELETE_MISSING", "true").lower() == "true"
    MARK_CANCELLED,  \* os.getenv("MARK_CANCELLED", "true").lower() == "true"
    store,           \* the calendar: handle -> [data, win, live]
    now,             \* dt.datetime.utcnow(), in seconds
    pc,              \* position of the process in main
    tt,              \* result of fetch_tt
    wanted,          \* dict of main, as its item sequence <<[uid, lesson], ...>>
    existing,        \* dict of main, as its item sequence <<[uid, h, data], ...>>
    wi,              \* index of the next item of the write loop
    di,              \* index of the next item of the delete loop
    created, updated, deleted,
    calls,           \* history: store calls of the current pass, in order
    queryOk,         \* history: date_search of the current pass did not raise
    store0,          \* history: the store when the current pass started
    prev,            \* history: summary of the pass before the current one
    passes,          \* number of passes started
    faults,          \* number of store calls that raised so far
    built,           \* history of the builder runs (SpecBuild)
    missing,         \* the required settings os.getenv finds unset or empty
    cals,            \* p.calendars(): the calendars of the account, in order
    cal,             \* the calendar connect_caldav returned (index in cals, 0: none)
    net              \* history: the service calls of the current run, in order

vars == <<UNTIS_SERVER, DELETE_MISSING, MARK_CANCELLED, store, now, pc, tt,
          wanted, existing, wi, di, created, updated, deleted, calls,
          queryOk, store0, prev, passes, faults, built, missing, cals, cal, net>>

cfgVars == <<UNTIS_SERVER, DELETE_MISSING, MARK_CANCELLED>>

runVars == <<missing, cals, cal, net>>

----------------------------------------------------------------------------
(* Bounds *)

MaxPasses == 2     \* sync passes in one behaviour
MaxLessons == 2    \* lessons in one fetch
MaxClock == 1      \* last value of the wall clock
MaxInit == 1       \* events in the calendar before the first pass
MaxFaults == 1     \* store calls that raise in one behaviour

----------------------------------------------------------------------------
(* Small library *)

RECURSIVE SeqOfSet(_)
SeqOfSet(S) ==
    IF S = {} THEN <<>>
    ELSE LET m == CHOOSE x \in S : \A y \in S : x <= y
         IN <<m>> \o SeqOfSet(S \ {m})

Range(s) == {s[k] : k \in DOMAIN s}

SeqsUpTo(S, n) == UNION {[1..k -> S] : k \in 0..n}

----------------------------------------------------------------------------
(* Lessons (the JSON objects of getTimetable) *)

Label(long, short) == [longname |-> long, name |-> short]

MkLesson(id, room, code, flag) ==
    [id |-> id, date |-> 20261103, startTime |-> 800 + 100 * id,
     endTime |-> 845 + 100 * id,
     su |-> <<Label("Mathematik", "M")>>,
     te |-> <<Label("", "Mue")>>,
     ro |-> <<Label("", room)>>,
     kl |-> <<>>,
     code |-> code, cancelled |-> flag]

\* the same object without the key 'id'
WithoutId(lesson) == [k \in DOMAIN lesson \ {"id"} |-> lesson[k]]

LessonA == MkLesson(1, "101", "", FALSE)
LessonA2 == MkLesson(1, "102", "", FALSE)
LessonB == MkLesson(2, "101", "", FALSE)
LessonN == WithoutId(MkLesson(3, "101", "", FALSE))

Lessons == {LessonA, LessonA2, LessonB, LessonN}

----------------------------------------------------------------------------
(* Pure functions of the source *)

Digits == <<"1", "2", "3", "4", "5", "6", "7", "8", "9">>

\* f"{lesson.get('id')}": the decimal text of the id, "None" when it is absent
IdText(lesson) ==
    IF "id" \in DOMAIN lesson THEN Digits[lesson.id] ELSE "None"

\* the uid without the server
uid_for_NoServer(lesson) == <<"untis-", IdText(lesson), "@", "">>

uid_for(lesson) == <<"untis-", IdText(lesson), "@", UNTIS_SERVER>>

to_local(date_int, time_int) ==
    [y |-> date_int \div 10000, m |-> (date_int \div 100) % 100,
     d |-> date_int % 100, h |-> time_int \div 100, mi |-> time_int % 100]

\* a.get("longname") or a.get("name") or ""
LabelText(a) == IF a.longname # "" THEN a.longname ELSE a.name

\* the joined text, as the sequence of its non-empty parts
labels(item, key) ==
    LET arr == IF key \in DOMAIN item THEN item[key] ELSE <<>>
    IN SelectSeq([k \in DOMAIN arr |-> LabelText(arr[k])], LAMBDA v : v # "")

DescLine(title, text) == IF text # <<>> THEN <<title>> \o text ELSE <<>>

RECURSIVE LStrip(_)
LStrip(lines) ==
    IF lines # <<>> /\ Head(lines) = <<>> THEN LStrip(Tail(lines)) ELSE lines

RECURSIVE RStrip(_)
RStrip(lines) ==
    IF lines # <<>> /\ lines[Len(lines)] = <<>>
    THEN RStrip(SubSeq(lines, 1, Len(lines) - 1)) ELSE lines

\* "\n".join([...]).strip(), as the sequence of its lines
Strip(lines) == RStrip(LStrip(lines))

\* line 118 without the test of the code
IsCancelled_FlagOnly(lesson) ==
    "cancelled" \in DOMAIN lesson /\ lesson.cancelled = TRUE

IsCancelled(lesson) ==
    \/ ("code" \in DOMAIN lesson /\ lesson.code = "cancelled")
    \/ ("cancelled" \in DOMAIN lesson /\ lesson.cancelled = TRUE)

\* the serialization, as the sequence of its content lines <<name, value>>;
\* clock is the value dt.datetime.utcnow() returns during the call
build_event(lesson, clock) ==
    LET start == to_local(lesson.date, lesson.startTime)
        end == to_local(lesson.date, lesson.endTime)
        subj == labels(lesson, "su")
        subject == IF subj # <<>> THEN subj ELSE <<"Unterricht">>
        teachers == labels(lesson, "te")
        rooms == labels(lesson, "ro")
        klasse == labels(lesson, "kl")
        desc == Strip(<<DescLine("Lehrer: ", teachers),
                        DescLine("Raum: ", rooms),
                        DescLine("Klasse: ", klasse)>>)
        cancelled == IsCancelled(lesson)
    IN <<[name |-> "PRODID", value |-> <<"-//Untis iCloud Sync//DE">>],
         [name |-> "VERSION", value |-> <<"2.0">>],
         [name |-> "UID", value |-> uid_for(lesson)],
         [name |-> "SUMMARY", value |-> subject],
         [name |-> "DTSTART", value |-> start],
         [name |-> "DTEND", value |-> end],
         [name |-> "DTSTAMP", value |-> clock],
         [name |-> "LOCATION", value |-> rooms],
         [name |-> "DESCRIPTION", value |-> desc]>>
       \o (IF cancelled /\ MARK_CANCELLED
           THEN <<[name |-> "STATUS", value |-> <<"CANCELLED">>]>>
           ELSE <<>>)

----------------------------------------------------------------------------
(* The calendar store (caldav): events by handle *)

Stored(data, win) == [data |-> data, win |-> win, live |-> TRUE]

Gone == [data |-> <<>>, win |-> FALSE, live |-> FALSE]

\* o.vobject_instance.vevent.uid.value raises when the object has no such line
HasUid(data) == \E k \in DOMAIN data : data[k].name = "UID"

UidOf(data) == data[CHOOSE k \in DOMAIN data : data[k].name = "UID"].value

\* uid.startswith("untis-")
StartsWithUntis(uid) == uid # <<>> /\ uid[1] = "untis-"

\* events another tool or the user put into the calendar
ForeignIn ==
    Stored(<<[name |-> "UID", value |-> <<"ferien-", "1">>],
             [name |-> "SUMMARY", value |-> <<"Ferien">>]>>, TRUE)
ForeignOut ==
    Stored(<<[name |-> "UID", value |-> <<"ferien-", "2">>],
             [name |-> "SUMMARY", value |-> <<"Ferien">>]>>, FALSE)
NoUidIn == Stored(<<[name |-> "SUMMARY", value |-> <<"Notiz">>]>>, TRUE)

\* events an earlier run of the program left in the window
StaleA == Stored(build_event(LessonA, 0), TRUE)
StaleB == Stored(build_event(LessonB, 0), TRUE)

InitPool == <<ForeignIn, ForeignOut, NoUidIn, StaleA, StaleB>>

InitStores ==
    {[k \in 1..Cardinality(S) |-> InitPool[SeqOfSet(S)[k]]] :
        S \in {T \in SUBSET DOMAIN InitPool : Cardinality(T) <= MaxInit}}

\* cal.date_search(start, end): the handles of the events in the window
InWindow(st) == {h \in DOMAIN st : st[h].live /\ st[h].win}

----------------------------------------------------------------------------
(* main, lines 175-180: the two dictionaries *)

\* the lookup by the id part of the uid alone
IndexOfUid_ByIdOnly(items, uid) ==
    LET hits == {k \in DOMAIN items : items[k].uid[2] = uid[2]}
    IN IF hits = {} THEN 0 ELSE CHOOSE k \in hits : \A j \in hits : j <= k

RECURSIVE IndexOfUid(_, _)
\* position of uid in a dict's item sequence, 0 when it is no key
IndexOfUid(items, uid) ==
    IF items = <<>> THEN 0
    ELSE IF items[Len(items)].uid = uid THEN Len(items)
    ELSE IndexOfUid(SubSeq(items, 1, Len(items) - 1), uid)

\* "uid in existing" answering no for every uid
HasKey_Never(items, uid) == FALSE

HasKey(items, uid) == IndexOfUid(items, uid) # 0

\* the dictionary keeping the first lesson of a uid
wanted_of_FirstWins(t) ==
    LET firsts == {k \in DOMAIN t :
                     \A j \in 1..(k - 1) : uid_for(t[j]) # uid_for(t[k])}
        idx == SeqOfSet(firsts)
    IN [m \in DOMAIN idx |-> [uid |-> uid_for(t[idx[m]]), lesson |-> t[idx[m]]]]

RECURSIVE wanted_of(_)
\* {uid_for(x): x for x in tt}: a key keeps its first position, takes its last value
wanted_of(t) ==
    IF t = <<>> THEN <<>>
    ELSE LET init == wanted_of(SubSeq(t, 1, Len(t) - 1))
             x == t[Len(t)]
             k == IndexOfUid(init, uid_for(x))
         IN IF k = 0 THEN Append(init, [uid |-> uid_for(x), lesson |-> x])
            ELSE [init EXCEPT ![k].lesson = x]

\* existing_by_uid losing the query's answer: nothing is known to exist
ExistingMaps_Empty(st, hs) == {<<>>}

\* the maps existing_by_uid can return for the events of hs: one entry per
\* extractable uid.  The order of the server's answer is not fixed, so which
\* of several events with one uid is the last one (and is kept) is open.
ExistingMaps(st, hs) ==
    LET ok == {h \in hs : HasUid(st[h].data)}
        picks == {P \in SUBSET ok :
                    /\ \A h \in ok : \E g \in P : UidOf(st[g].data) = UidOf(st[h].data)
                    /\ \A g1, g2 \in P : UidOf(st[g1].data) = UidOf(st[g2].data) => g1 = g2}
    IN {[k \in 1..Cardinality(P) |->
            [uid |-> UidOf(st[SeqOfSet(P)[k]].data), h |-> SeqOfSet(P)[k],
             data |-> st[SeqOfSet(P)[k]].data]] : P \in picks}

AfterDelete(k, e) == IF k <= Len(e) THEN "delete" ELSE "done"

\* the delete loop entered without looking at DELETE_MISSING
AfterWrite_AlwaysDelete(k, w, e) ==
    IF k <= Len(w) THEN "write" ELSE AfterDelete(1, e)

AfterWrite(k, w, e) ==
    IF k <= Len(w) THEN "write"
    ELSE IF DELETE_MISSING THEN AfterDelete(1, e) ELSE "done"

----------------------------------------------------------------------------
(* The settings, the calendars of the account and the service calls *)

\* line 152: the settings main requires
Required == {"UNTIS_SERVER", "UNTIS_SCHOOL", "UNTIS_USER", "UNTIS_PASS",
             "ICLOUD_USER", "ICLOUD_PASS"}

\* line 20: os.getenv("ICLOUD_CAL", "Stundenplan")
ICLOUD_CAL == "Stundenplan"

\* a calendar of the account; readable: reading cal.name does not raise
Calendar(name, readable) == [name |-> name, readable |-> readable]

NamedCal == Calendar(ICLOUD_CAL, TRUE)
OtherCal == Calendar("Privat", TRUE)
UnreadableCal == Calendar(ICLOUD_CAL, FALSE)

\* one service call of the run and how it ended:
\* "ok", "raise", "ReportError" or "rejected" (a JSON-RPC error answer)
NetCall(call, res) == [call |-> call, res |-> res]

\* the first calendar the loop of lines 96-101 returns, 0 if it returns none
FirstNamed(cs) ==
    LET hits == {k \in DOMAIN cs : cs[k].readable /\ cs[k].name = ICLOUD_CAL}
    IN IF hits = {} THEN 0 ELSE CHOOSE k \in hits : \A j \in hits : k <= j

\* connect_caldav without the fallback of lines 104-106
connect_caldav_NoFallback(cs, makeOk) ==
    IF FirstNamed(cs) # 0
    THEN [ok |-> TRUE, cal |-> FirstNamed(cs), cals |-> cs,
          net |-> <<NetCall("principal", "ok"), NetCall("calendars", "ok")>>]
    ELSE IF makeOk
    THEN [ok |-> TRUE, cal |-> Len(cs) + 1, cals |-> Append(cs, NamedCal),
          net |-> <<NetCall("principal", "ok"), NetCall("calendars", "ok"),
                    NetCall("make_calendar", "ok")>>]
    ELSE [ok |-> FALSE, cal |-> 0, cals |-> cs,
          net |-> <<NetCall("principal", "ok"), NetCall("calendars", "ok"),
                    NetCall("make_calendar", "raise")>>]

\* lines 92-106: the calendar connect_caldav returns for the calendars cs,
\* the calendars afterwards and the calls made; ok: it did not raise
connect_caldav(cs, makeOk) ==
    IF FirstNamed(cs) # 0
    THEN [ok |-> TRUE, cal |-> FirstNamed(cs), cals |-> cs,
          net |-> <<NetCall("principal", "ok"), NetCall("calendars", "ok")>>]
    ELSE IF makeOk
    THEN [ok |-> TRUE, cal |-> Len(cs) + 1, cals |-> Append(cs, NamedCal),
          net |-> <<NetCall("principal", "ok"), NetCall("calendars", "ok"),
                    NetCall("make_calendar", "ok")>>]
    ELSE IF cs # <<>>
    THEN [ok |-> TRUE, cal |-> 1, cals |-> cs,
          net |-> <<NetCall("principal", "ok"), NetCall("calendars", "ok"),
                    NetCall("make_calendar", "raise"), NetCall("calendars", "ok")>>]
    ELSE [ok |-> FALSE, cal |-> 0, cals |-> cs,
          net |-> <<NetCall("principal", "ok"), NetCall("calendars", "ok"),
                    NetCall("make_calendar", "raise"), NetCall("calendars", "ok")>>]

\* every required setting is set and the account holds the named calendar
Configured ==
    /\ missing = {}
    /\ cals = <<NamedCal>>

----------------------------------------------------------------------------
(* Initial state *)

NoPass == [tt |-> <<>>, outcome |-> "none", queryOk |-> TRUE, dupFree |-> TRUE]

\* no two live events in the window carry the same uid
DupFree(st) ==
    \A g, h \in InWindow(st) :
        (HasUid(st[g].data) /\ HasUid(st[h].data)
         /\ UidOf(st[g].data) = UidOf(st[h].data)) => g = h

\* no pass has run yet
Fresh ==
    /\ now = 0
    /\ pc = "start"
    /\ tt = <<>>
    /\ wanted = <<>>
    /\ existing = <<>>
    /\ wi = 1
    /\ di = 1
    /\ created = 0
    /\ updated = 0
    /\ deleted = 0
    /\ calls = <<>>
    /\ queryOk = TRUE
    /\ store0 = store
    /\ prev = NoPass
    /\ passes = 0
    /\ faults = 0
    /\ built = {}
    /\ cal = 0
    /\ net = <<>>

Init ==
    /\ UNTIS_SERVER = "poly.webuntis.com"
    /\ DELETE_MISSING \in BOOLEAN
    /\ MARK_CANCELLED = TRUE
    /\ store \in InitStores
    /\ Configured
    /\ Fresh

\* the calendar holds five events of lessons that left the timetable
FiveStale ==
    [k \in 1..5 |-> Stored(build_event(MkLesson(k, "101", "", FALSE), 0), TRUE)]

InitStale ==
    /\ UNTIS_SERVER = "poly.webuntis.com"
    /\ DELETE_MISSING = TRUE
    /\ MARK_CANCELLED = TRUE
    /\ store = FiveStale
    /\ Configured
    /\ Fresh

----------------------------------------------------------------------------
(* main *)

Ended == pc \in {"done", "failed", "interrupted"}

\* lines 150-175: a run starts, logs in, fetches the timetable, builds wanted
Fetch(t) ==
    /\ pc = "start" \/ Ended
    /\ passes < MaxPasses
    /\ passes' = passes + 1
    /\ prev' = IF pc = "start" THEN NoPass
               ELSE [tt |-> tt, outcome |-> pc, queryOk |-> queryOk,
                     dupFree |-> DupFree(store0)]
    /\ tt' = t
    /\ wanted' = wanted_of(t)
    /\ existing' = <<>>
    /\ wi' = 1
    /\ di' = 1
    /\ created' = 0
    /\ updated' = 0
    /\ deleted' = 0
    /\ calls' = <<>>
    /\ queryOk' = TRUE
    /\ store0' = store
    /\ pc' = "query"
    /\ cal' = connect_caldav(cals, TRUE).cal
    /\ cals' = connect_caldav(cals, TRUE).cals
    /\ net' = <<NetCall("authenticate", "ok"), NetCall("getUserData", "ok"),
                NetCall("getTimetable", "ok")>> \o connect_caldav(cals, TRUE).net
    /\ UNCHANGED <<cfgVars, store, now, faults, built, missing>>

\* lines 177-182, existing_by_uid with date_search answering
Query ==
    /\ pc = "query"
    /\ \E e \in ExistingMaps(store, InWindow(store)) :
          /\ existing' = e
          /\ pc' = AfterWrite(1, wanted, e)
    /\ net' = Append(net, NetCall("date_search", "ok"))
    /\ UNCHANGED <<cfgVars, store, now, tt, wanted, wi, di, created, updated,
                   deleted, calls, queryOk, store0, prev, passes, faults, built,
                   missing, cals, cal>>

\* lines 141-142: date_search raises ReportError, objs = []
QueryReportError ==
    /\ pc = "query"
    /\ existing' = <<>>
    /\ queryOk' = FALSE
    /\ pc' = AfterWrite(1, wanted, <<>>)
    /\ faults < MaxFaults
    /\ faults' = faults + 1
    /\ net' = Append(net, NetCall("date_search", "ReportError"))
    /\ UNCHANGED <<cfgVars, store, now, tt, wanted, wi, di, created, updated,
                   deleted, calls, store0, prev, passes, built, missing, cals, cal>>

\* the wall clock advances; main reads it in build_event only
Tick ==
    /\ pc = "write"
    /\ now < MaxClock
    /\ now' = now + 1
    /\ UNCHANGED runVars
    /\ UNCHANGED <<cfgVars, store, pc, tt, wanted, existing, wi, di, created,
                   updated, deleted, calls, queryOk, store0, prev, passes, faults, built>>

Call(op, uid, h, data, ok) ==
    [op |-> op, uid |-> uid, h |-> h, data |-> data, ok |-> ok]

\* lines 183-187: the item's payload equals the stored one, nothing is written
WriteSame ==
    /\ pc = "write"
    /\ LET uid == wanted[wi].uid
           ics == build_event(wanted[wi].lesson, now)
           k == IndexOfUid(existing, uid)
       IN /\ k # 0
          /\ ics = existing[k].data
    /\ wi' = wi + 1
    /\ pc' = AfterWrite(wi + 1, wanted, existing)
    /\ UNCHANGED runVars
    /\ UNCHANGED <<cfgVars, store, now, tt, wanted, existing, di, created,
                   updated, deleted, calls, queryOk, store0, prev, passes, faults, built>>

\* lines 187-190: the payload differs, the event is saved through its handle
WriteSave ==
    /\ pc = "write"
    /\ LET uid == wanted[wi].uid
           ics == build_event(wanted[wi].lesson, now)
           k == IndexOfUid(existing, uid)
       IN /\ k # 0
          /\ ics # existing[k].data
          /\ existing' = [existing EXCEPT ![k].data = ics]
          /\ store' = [store EXCEPT ![existing[k].h].data = ics]
          /\ calls' = Append(calls, Call("save", uid, existing[k].h, ics, TRUE))
    /\ updated' = updated + 1
    /\ wi' = wi + 1
    /\ pc' = AfterWrite(wi + 1, wanted, existing)
    /\ UNCHANGED runVars
    /\ UNCHANGED <<cfgVars, now, tt, wanted, di, created, deleted, queryOk,
                   store0, prev, passes, faults, built>>

\* line 189 raises: the exception leaves main (lines 207-211, exit code 1)
WriteSaveFails ==
    /\ pc = "write"
    /\ LET uid == wanted[wi].uid
           ics == build_event(wanted[wi].lesson, now)
           k == IndexOfUid(existing, uid)
       IN /\ k # 0
          /\ ics # existing[k].data
          /\ existing' = [existing EXCEPT ![k].data = ics]
          /\ calls' = Append(calls, Call("save", uid, existing[k].h, ics, FALSE))
    /\ pc' = "failed"
    /\ faults < MaxFaults
    /\ faults' = faults + 1
    /\ UNCHANGED runVars
    /\ UNCHANGED <<cfgVars, store, now, tt, wanted, wi, di, created, updated,
                   deleted, queryOk, store0, prev, passes, built>>

\* the add branch without its count
WriteAdd_NoCount ==
    /\ pc = "write"
    /\ LET uid == wanted[wi].uid
           ics == build_event(wanted[wi].lesson, now)
       IN /\ ~HasKey(existing, uid)
          /\ store' = Append(store, Stored(ics, TRUE))
          /\ calls' = Append(calls, Call("add", uid, Len(store) + 1, ics, TRUE))
    /\ wi' = wi + 1
    /\ pc' = IF wi + 1 <= Len(wanted) THEN "write"
             ELSE IF DELETE_MISSING /\ Len(existing) > 0 THEN "delete" ELSE "done"
    /\ UNCHANGED runVars
    /\ UNCHANGED <<cfgVars, now, tt, wanted, existing, di, created, updated,
                   deleted, queryOk, store0, prev, passes, faults, built>>

\* lines 191-193: the uid is not in existing, the event is added
WriteAdd ==
    /\ pc = "write"
    /\ LET uid == wanted[wi].uid
           ics == build_event(wanted[wi].lesson, now)
       IN /\ ~HasKey(existing, uid)
          /\ store' = Append(store, Stored(ics, TRUE))
          /\ calls' = Append(calls, Call("add", uid, Len(store) + 1, ics, TRUE))
    /\ created' = created + 1
    /\ wi' = wi + 1
    /\ pc' = AfterWrite(wi + 1, wanted, existing)
    /\ UNCHANGED runVars
    /\ UNCHANGED <<cfgVars, now, tt, wanted, existing, di, updated, deleted,
                   queryOk, store0, prev, passes, faults, built>>

\* line 192 raises: the exception leaves main (lines 207-211, exit code 1)
WriteAddFails ==
    /\ pc = "write"
    /\ LET uid == wanted[wi].uid
           ics == build_event(wanted[wi].lesson, now)
       IN /\ ~HasKey(existing, uid)
          /\ calls' = Append(calls, Call("add", uid, 0, ics, FALSE))
    /\ pc' = "failed"
    /\ faults < MaxFaults
    /\ faults' = faults + 1
    /\ UNCHANGED runVars
    /\ UNCHANGED <<cfgVars, store, now, tt, wanted, existing, wi, di, created,
                   updated, deleted, queryOk, store0, prev, passes, built>>

\* line 197 without the prefix test
Stale_NoPrefix(uid, w) == ~HasKey(w, uid)

\* line 197: the item's uid is owned by the program and no longer wanted
Stale(uid, w) == StartsWithUntis(uid) /\ ~HasKey(w, uid)

\* lines 196-200: a stale event is deleted
DeleteOk ==
    /\ pc = "delete"
    /\ Stale(existing[di].uid, wanted)
    /\ store' = [store EXCEPT ![existing[di].h] = Gone]
    /\ calls' = Append(calls, Call("delete", existing[di].uid, existing[di].h,
                                   existing[di].data, TRUE))
    /\ deleted' = deleted + 1
    /\ di' = di + 1
    /\ pc' = AfterDelete(di + 1, existing)
    /\ UNCHANGED runVars
    /\ UNCHANGED <<cfgVars, now, tt, wanted, existing, wi, created, updated,
                   queryOk, store0, prev, passes, faults, built>>

\* the count taken before the call that raises
DeleteFails_Counted ==
    /\ pc = "delete"
    /\ ~HasKey(wanted, existing[di].uid)
    /\ StartsWithUntis(existing[di].uid)
    /\ calls' = Append(calls, Call("delete", existing[di].uid, existing[di].h,
                                   existing[di].data, FALSE))
    /\ deleted' = deleted + 1
    /\ di' = di + 1
    /\ pc' = IF di + 1 <= Len(existing) THEN "delete" ELSE "done"
    /\ faults < MaxFaults
    /\ faults' = faults + 1
    /\ UNCHANGED runVars
    /\ UNCHANGED <<cfgVars, store, now, tt, wanted, existing, wi, created,
                   updated, queryOk, store0, prev, passes, built>>

\* lines 201-202: obj.delete() raises, the exception is swallowed
DeleteFails ==
    /\ pc = "delete"
    /\ Stale(existing[di].uid, wanted)
    /\ calls' = Append(calls, Call("delete", existing[di].uid, existing[di].h,
                                   existing[di].data, FALSE))
    /\ di' = di + 1
    /\ pc' = AfterDelete(di + 1, existing)
    /\ faults < MaxFaults
    /\ faults' = faults + 1
    /\ UNCHANGED runVars
    /\ UNCHANGED <<cfgVars, store, now, tt, wanted, existing, wi, created,
                   updated, deleted, queryOk, store0, prev, passes, built>>

\* line 197 is false: the item is left alone
DeleteSkip ==
    /\ pc = "delete"
    /\ ~Stale(existing[di].uid, wanted)
    /\ di' = di + 1
    /\ pc' = AfterDelete(di + 1, existing)
    /\ UNCHANGED runVars
    /\ UNCHANGED <<cfgVars, store, now, tt, wanted, existing, wi, created,
                   updated, deleted, calls, queryOk, store0, prev, passes, faults, built>>

\* the process is killed after some store call of the pass (a kill before
\* the first call leaves the calendar as the pass found it)
Interrupt ==
    /\ pc \in {"write", "delete"}
    /\ calls # <<>>
    /\ pc' = "interrupted"
    /\ UNCHANGED runVars
    /\ UNCHANGED <<cfgVars, store, now, tt, wanted, existing, wi, di, created,
                   updated, deleted, calls, queryOk, store0, prev, passes, faults, built>>

\* the answers of getTimetable: the service lists no lesson twice
TTs == {t \in SeqsUpTo(Lessons, MaxLessons) :
          \A j, k \in DOMAIN t : t[j] = t[k] => j = k}

Next ==
    \/ \E t \in TTs : Fetch(t)
    \/ Query
    \/ QueryReportError
    \/ Tick
    \/ WriteSame
    \/ WriteSave
    \/ WriteSaveFails
    \/ WriteAdd
    \/ WriteAddFails
    \/ DeleteOk
    \/ DeleteFails
    \/ DeleteSkip
    \/ Interrupt

Spec == Init /\ [][Next]_vars

SpecStale == InitStale /\ [][Next]_vars

----------------------------------------------------------------------------
(* One run of the program, call by call: the settings may be incomplete, the
   account may hold any calendars, and every service call may raise *)

MaxMissing == 1    \* required settings that are unset
MaxCals == 2       \* calendars of the account before the run

CalLists == {cs \in SeqsUpTo({NamedCal, OtherCal, UnreadableCal}, MaxCals) :
               \A j, k \in DOMAIN cs : cs[j] = cs[k] => j = k}

InitRun ==
    /\ UNTIS_SERVER = "poly.webuntis.com"
    /\ DELETE_MISSING \in BOOLEAN
    /\ MARK_CANCELLED = TRUE
    /\ store \in InitStores
    /\ missing \in {m \in SUBSET Required : Cardinality(m) <= MaxMissing}
    /\ cals \in CalLists
    /\ Fresh

\* lines 206-211 and 32: the exit code of the process, -1 while it runs
ExitCode ==
    CASE pc = "done" -> 0
      [] pc = "failed" -> 1
      [] pc = "exit2" -> 2
      [] OTHER -> -1

\* the loop of lines 152-153 left out
RequireEnv_NoCheck ==
    /\ pc = "start"
    /\ passes' = passes + 1
    /\ pc' = "login"
    /\ UNCHANGED <<cfgVars, store, now, tt, wanted, existing, wi, di, created,
                   updated, deleted, calls, queryOk, store0, prev, faults,
                   built, runVars>>

\* lines 152-153 and 29-32: a missing setting ends the process with sys.exit(2)
RequireEnv ==
    /\ pc = "start"
    /\ passes' = passes + 1
    /\ pc' = IF missing = {} THEN "login" ELSE "exit2"
    /\ UNCHANGED <<cfgVars, store, now, tt, wanted, existing, wi, di, created,
                   updated, deleted, calls, queryOk, store0, prev, faults,
                   built, runVars>>

\* a service call of the preamble: it answers and main moves on to "to", or
\* it ends as res and the exception leaves main
Step(from, call, res, to) ==
    /\ pc = from
    /\ net' = Append(net, NetCall(call, res))
    /\ pc' = IF res = "ok" THEN to ELSE "failed"
    /\ UNCHANGED <<cfgVars, store, now, tt, wanted, existing, wi, di, created,
                   updated, deleted, calls, queryOk, store0, prev, passes,
                   faults, built, missing, cals, cal>>

\* line 162, untis_login (lines 56-77)
Login == Step("login", "authenticate", "ok", "user")

\* lines 66-74: HTTP error, no JSON, or an answer without "result"
LoginFails == \E res \in {"raise", "rejected"} :
                 Step("login", "authenticate", res, "failed")

\* line 164, untis_user (lines 79-82)
UserData == Step("user", "getUserData", "ok", "fetch")

UserDataFails == \E res \in {"raise", "rejected"} :
                    Step("user", "getUserData", res, "failed")

\* a second request after the first one answered
FetchTT_Twice(t) ==
    /\ pc = "fetch"
    /\ tt' = t
    /\ wanted' = wanted_of(t)
    /\ store0' = store
    /\ net' = net \o <<NetCall("getTimetable", "ok"), NetCall("getTimetable", "ok")>>
    /\ pc' = "connect"
    /\ UNCHANGED <<cfgVars, store, now, existing, wi, di, created, updated,
                   deleted, calls, queryOk, prev, passes, faults, built,
                   missing, cals, cal>>

\* lines 172-175, fetch_tt (lines 84-90): one getTimetable request answers
FetchTT(t) ==
    /\ pc = "fetch"
    /\ tt' = t
    /\ wanted' = wanted_of(t)
    /\ store0' = store
    /\ net' = Append(net, NetCall("getTimetable", "ok"))
    /\ pc' = "connect"
    /\ UNCHANGED <<cfgVars, store, now, existing, wi, di, created, updated,
                   deleted, calls, queryOk, prev, passes, faults, built,
                   missing, cals, cal>>

\* line 89: the HTTP status is an error, raise_for_status raises
FetchHttpError == Step("fetch", "getTimetable", "raise", "failed")

\* line 90: the service rejects the method, the answer holds "error" and no
\* "result", and r.json()["result"] raises KeyError
FetchRejected == Step("fetch", "getTimetable", "rejected", "failed")

\* line 177, connect_caldav (lines 92-106)
Connect(makeOk) ==
    /\ pc = "connect"
    /\ LET r == connect_caldav(cals, makeOk)
       IN /\ cal' = r.cal
          /\ cals' = r.cals
          /\ net' = net \o r.net
          /\ pc' = IF r.ok THEN "query" ELSE "failed"
    /\ UNCHANGED <<cfgVars, store, now, tt, wanted, existing, wi, di, created,
                   updated, deleted, calls, queryOk, store0, prev, passes,
                   faults, built, missing>>

\* lines 94-96: c.principal() or p.calendars() raises
ConnectFails == \E call \in {"principal", "calendars"} :
                   Step("connect", call, "raise", "failed")

\* a failure of date_search other than ReportError taken as an empty answer
QueryFails_Swallowed ==
    /\ pc = "query"
    /\ existing' = <<>>
    /\ net' = Append(net, NetCall("date_search", "raise"))
    /\ pc' = AfterWrite(1, wanted, <<>>)
    /\ UNCHANGED <<cfgVars, store, now, tt, wanted, wi, di, created, updated,
                   deleted, calls, queryOk, store0, prev, passes, faults,
                   built, missing, cals, cal>>

\* line 140: date_search raises something else than ReportError, which
\* lines 141-142 do not catch
QueryFails == Step("query", "date_search", "raise", "failed")

NextRun ==
    \/ RequireEnv
    \/ Login
    \/ LoginFails
    \/ UserData
    \/ UserDataFails
    \/ \E t \in TTs : FetchTT(t)
    \/ FetchHttpError
    \/ FetchRejected
    \/ \E makeOk \in BOOLEAN : Connect(makeOk)
    \/ ConnectFails
    \/ Query
    \/ QueryReportError
    \/ QueryFails
    \/ Tick
    \/ WriteSame
    \/ WriteSave
    \/ WriteSaveFails
    \/ WriteAdd
    \/ WriteAddFails
    \/ DeleteOk
    \/ DeleteFails
    \/ DeleteSkip
    \/ Interrupt

SpecRun == InitRun /\ [][NextRun]_vars

----------------------------------------------------------------------------
(* The event builder on its own: build_event run on chosen lessons at chosen
   clock values, under every configuration *)

MaxBuilt == 2      \* builder runs kept in one behaviour

Servers == {"poly.webuntis.com", "neilo.webuntis.com"}

BuildLessons ==
    Lessons \cup {MkLesson(1, "101", "cancelled", FALSE),
                  MkLesson(1, "101", "", TRUE)}

InitBuild ==
    /\ UNTIS_SERVER \in Servers
    /\ DELETE_MISSING = TRUE
    /\ MARK_CANCELLED \in BOOLEAN
    /\ store = <<>>
    /\ Configured
    /\ Fresh

Build(lesson) ==
    /\ Cardinality(built) < MaxBuilt
    /\ built' = built \cup {[lesson |-> lesson, clock |-> now,
                             server |-> UNTIS_SERVER, mark |-> MARK_CANCELLED,
                             uid |-> uid_for(lesson),
                             ics |-> build_event(lesson, now)]}
    /\ UNCHANGED runVars
    /\ UNCHANGED <<cfgVars, store, now, pc, tt, wanted, existing, wi, di,
                   created, updated, deleted, calls, queryOk, store0, prev,
                   passes, faults>>

TickBuild ==
    /\ now < MaxClock
    /\ now' = now + 1
    /\ UNCHANGED runVars
    /\ UNCHANGED <<cfgVars, store, pc, tt, wanted, existing, wi, di, created,
                   updated, deleted, calls, queryOk, store0, prev, passes,
                   faults, built>>

\* lines 11-26: the next process is started with other settings
Reconfigure(server, mark) ==
    /\ <<server, mark>> # <<UNTIS_SERVER, MARK_CANCELLED>>
    /\ UNTIS_SERVER' = server
    /\ MARK_CANCELLED' = mark
    /\ UNCHANGED runVars
    /\ UNCHANGED <<DELETE_MISSING, store, now, pc, tt, wanted, existing, wi,
                   di, created, updated, deleted, calls, queryOk, store0,
                   prev, passes, faults, built>>

NextBuild ==
    \/ \E lesson \in BuildLessons : Build(lesson)
    \/ TickBuild
    \/ \E server \in Servers, mark \in BOOLEAN : Reconfigure(server, mark)

SpecBuild == InitBuild /\ [][NextBuild]_vars

----------------------------------------------------------------------------
(* Two instances of the program, one per server, run their passes on the same
   calendar: each process is started with the settings of its instance *)

InitServers ==
    /\ UNTIS_SERVER \in Servers
    /\ DELETE_MISSING \in BOOLEAN
    /\ MARK_CANCELLED = TRUE
    /\ store = <<>>
    /\ Configured
    /\ Fresh

\* lines 11-26 and 206-208: the process of the instance for server starts;
\* it shares nothing with the process before it but the calendar
StartAs(server) ==
    /\ Ended
    /\ server # UNTIS_SERVER
    /\ passes < MaxPasses
    /\ UNTIS_SERVER' = server
    /\ pc' = "start"
    /\ tt' = <<>>
    /\ wanted' = <<>>
    /\ existing' = <<>>
    /\ wi' = 1
    /\ di' = 1
    /\ created' = 0
    /\ updated' = 0
    /\ deleted' = 0
    /\ calls' = <<>>
    /\ queryOk' = TRUE
    /\ store0' = store
    /\ prev' = NoPass
    /\ cal' = 0
    /\ net' = <<>>
    /\ UNCHANGED <<DELETE_MISSING, MARK_CANCELLED, store, now, passes, faults,
                   built, missing, cals>>

NextServers ==
    \/ \E server \in Servers : StartAs(server)
    \/ \E t \in TTs : Fetch(t)
    \/ Query
    \/ QueryReportError
    \/ Tick
    \/ WriteSame
    \/ WriteSave
    \/ WriteSaveFails
    \/ WriteAdd
    \/ WriteAddFails
    \/ DeleteOk
    \/ DeleteFails
    \/ DeleteSkip
    \/ Interrupt

SpecServers == InitServers /\ [][NextServers]_vars

----------------------------------------------------------------------------
(* Vocabulary of the properties *)

\* the event is owned by the program: its uid can be read and starts with "untis-"
Owned(data) == HasUid(data) /\ StartsWithUntis(UidOf(data))

\* positions in calls of the calls of kind op for uid
CallsOf(op, uid) == {k \in DOMAIN calls : calls[k].op = op /\ calls[k].uid = uid}

DeleteCalled(h) == \E k \in DOMAIN calls : calls[k].op = "delete" /\ calls[k].h = h

FailedCalls(ops) == {k \in DOMAIN calls : calls[k].op \in ops /\ ~calls[k].ok}

OkCalls(ops) == {k \in DOMAIN calls : calls[k].op \in ops /\ calls[k].ok}

\* data is what build_event returns for lesson at some clock value
BuiltFrom(lesson, data) == \E t \in 0..MaxClock : data = build_event(lesson, t)

\* the events the window query of the current pass returned
Returned == IF queryOk THEN InWindow(store0) ELSE {}

\* the live events in the window with this uid
EventsOf(uid) ==
    {h \in InWindow(store) : HasUid(store[h].data) /\ UidOf(store[h].data) = uid}

----------------------------------------------------------------------------
(* C1: a second pass over the same lessons and an unchanged calendar writes
   nothing.  Stated for the case where no store call has ever raised, so
   that the two passes differ in their wall-clock time only. *)
C1_Idempotent ==
    (pc = "done" /\ prev.outcome = "done" /\ prev.tt = tt /\ faults = 0)
        => (calls = <<>> /\ created = 0 /\ updated = 0 /\ deleted = 0)

(* C2: build_event is a function of the lesson and the configuration: two
   runs on the same lesson under the same settings return the same
   serialization whatever the clock. *)
C2_BuildIgnoresClock ==
    \A a, b \in built :
       (a.lesson = b.lesson /\ a.server = b.server /\ a.mark = b.mark)
          => a.ics = b.ics

(* C3: no step of any pass changes or removes an event that is not owned by
   the program (uid without the prefix "untis-", or no readable uid), in or
   out of the window, whatever DELETE_MISSING is. *)
C3_NonDestructive ==
    [][\A h \in DOMAIN store :
          (store[h].live /\ ~Owned(store[h].data))
              => (h \in DOMAIN store' /\ store'[h] = store[h])]_vars

\* a pass that saved or deleted ends with a foreign event of the window, which
\* the query returned, still in the calendar
C3_Witness ==
    /\ pc = "done"
    /\ OkCalls({"save", "delete"}) # {}
    /\ \E k \in DOMAIN existing : existing[k].data = ForeignIn.data
    /\ \E h \in DOMAIN store : store[h] = ForeignIn

(* C4, as stated: a completed pass has called delete on every event the
   window query returned whose uid is owned and not wanted exactly when
   DELETE_MISSING is enabled; without DELETE_MISSING nothing is deleted; no
   event with a wanted uid is deleted. *)
C4_DeleteEveryReturned ==
    /\ pc = "done" =>
          \A h \in Returned :
              (Owned(store0[h].data) /\ ~HasKey(wanted, UidOf(store0[h].data)))
                  => (DeleteCalled(h) <=> DELETE_MISSING)
    /\ ~DELETE_MISSING =>
          (deleted = 0 /\ \A k \in DOMAIN calls : calls[k].op # "delete")
    /\ \A k \in DOMAIN calls :
          calls[k].op = "delete" => ~HasKey(wanted, calls[k].uid)

(* C4, amended: the same for every event kept in the existing map (of several
   returned events with one uid the map keeps one): a completed pass has
   called delete on it exactly when DELETE_MISSING is enabled, the uid is
   owned and the uid is not wanted; every delete call is on such an event. *)
C4_DeleteScoping ==
    /\ pc = "done" =>
          \A k \in DOMAIN existing :
              DeleteCalled(existing[k].h)
                  <=> (DELETE_MISSING /\ StartsWithUntis(existing[k].uid)
                       /\ ~HasKey(wanted, existing[k].uid))
    /\ ~DELETE_MISSING =>
          (deleted = 0 /\ \A k \in DOMAIN calls : calls[k].op # "delete")
    /\ \A k \in DOMAIN calls :
          calls[k].op = "delete" =>
              /\ DELETE_MISSING
              /\ StartsWithUntis(calls[k].uid)
              /\ ~HasKey(wanted, calls[k].uid)
              /\ \E j \in DOMAIN existing : existing[j].h = calls[k].h

\* a completed pass deleted a stale event and kept a wanted one it had found
C4_Witness ==
    /\ pc = "done"
    /\ OkCalls({"delete"}) # {}
    /\ \E k \in DOMAIN existing :
          HasKey(wanted, existing[k].uid) /\ store[existing[k].h].live

(* C5: a completed pass has added exactly one event for every wanted uid the
   window query did not return, with the builder's output for that lesson as
   payload, and created counts these uids; lessons {A} against an empty
   calendar give created = 1, updated = 0, deleted = 0 and one stored event,
   A's. *)
C5_Create ==
    pc = "done" =>
        /\ \A k \in DOMAIN wanted :
              IF HasKey(existing, wanted[k].uid)
              THEN CallsOf("add", wanted[k].uid) = {}
              ELSE \E c \in CallsOf("add", wanted[k].uid) :
                      /\ CallsOf("add", wanted[k].uid) = {c}
                      /\ calls[c].ok
                      /\ BuiltFrom(wanted[k].lesson, calls[c].data)
                      /\ calls[c].h \notin DOMAIN store0
                      /\ store[calls[c].h] = Stored(calls[c].data, TRUE)
        /\ created = Cardinality({k \in DOMAIN wanted :
                                    ~HasKey(existing, wanted[k].uid)})
        /\ Len(store) = Len(store0) + created
        /\ (store0 = <<>> /\ tt = <<LessonA>>) =>
              /\ created = 1 /\ updated = 0 /\ deleted = 0
              /\ Len(store) = 1
              /\ store[1].live
              /\ UidOf(store[1].data) = uid_for(LessonA)
              /\ BuiltFrom(LessonA, store[1].data)

\* lessons {A} were synced into an empty calendar
C5_Witness == pc = "done" /\ store0 = <<>> /\ tt = <<LessonA>>

(* C6: after a completed pass, a completed pass in which a lesson kept its id
   but changed its content saves the new payload through the handle the
   query returned, adds nothing for that uid and leaves the builder's output
   for the changed lesson in the calendar; a lesson that did not change is
   not saved; updated counts the saves.  Stated for the case where no store
   call has ever raised. *)
C6_UpdateOnChange ==
    (pc = "done" /\ prev.outcome = "done" /\ faults = 0) =>
        LET before == wanted_of(prev.tt)
            kept == {k \in DOMAIN wanted : HasKey(before, wanted[k].uid)}
            changed == {k \in kept :
                          before[IndexOfUid(before, wanted[k].uid)].lesson
                              # wanted[k].lesson}
        IN /\ \A k \in changed :
                 LET e == existing[IndexOfUid(existing, wanted[k].uid)]
                 IN /\ HasKey(existing, wanted[k].uid)
                    /\ CallsOf("add", wanted[k].uid) = {}
                    /\ \E c \in CallsOf("save", wanted[k].uid) :
                          /\ CallsOf("save", wanted[k].uid) = {c}
                          /\ calls[c].ok
                          /\ calls[c].h = e.h
                          /\ BuiltFrom(wanted[k].lesson, calls[c].data)
                          /\ store[e.h].data = calls[c].data
           /\ \A k \in kept \ changed : CallsOf("save", wanted[k].uid) = {}
           /\ updated = Cardinality(OkCalls({"save"}))

(* C7: an add or save that raises does not end the pass: the pass goes on
   with the remaining lessons and the delete step and ends normally, and the
   failed item is not counted. *)
C7_WriteFailureIsolated ==
    /\ FailedCalls({"add", "save"}) # {} => pc \in {"write", "delete", "done"}
    /\ created = Cardinality(OkCalls({"add"}))
    /\ updated = Cardinality(OkCalls({"save"}))

\* the entries of existing the delete loop has to delete
StaleEntries == {k \in DOMAIN existing : Stale(existing[k].uid, wanted)}

(* C8: a delete that raises does not end the pass; a completed pass with
   DELETE_MISSING has called delete once on each of the n stale events of
   existing, and if k of these calls raised it reports deleted = n - k;
   created and updated still count the adds and saves that succeeded. *)
C8_DeleteFailureIsolated ==
    /\ (FailedCalls({"delete"}) # {} /\ pc # "interrupted")
          => pc \in {"delete", "done"}
    /\ (pc = "done" /\ DELETE_MISSING) =>
          /\ \A k \in StaleEntries :
                Cardinality({c \in DOMAIN calls :
                               calls[c].op = "delete"
                               /\ calls[c].h = existing[k].h}) = 1
          /\ deleted = Cardinality(StaleEntries)
                         - Cardinality(FailedCalls({"delete"}))
    /\ pc \in {"delete", "done"} =>
          /\ created = Cardinality(OkCalls({"add"}))
          /\ updated = Cardinality(OkCalls({"save"}))

\* one delete call among five stale events raised, the pass reports 4
C8_Witness ==
    /\ pc = "done"
    /\ Cardinality(StaleEntries) = 5
    /\ Cardinality(FailedCalls({"delete"})) = 1
    /\ deleted = 4

\* the window holds one event per wanted uid, carrying the builder's output
\* for its lesson, and no other event owned by the program
ExactlyWanted ==
    /\ \A k \in DOMAIN wanted :
          \E h \in EventsOf(wanted[k].uid) :
              /\ EventsOf(wanted[k].uid) = {h}
              /\ BuiltFrom(wanted[k].lesson, store[h].data)
    /\ \A h \in InWindow(store) :
          Owned(store[h].data) => HasKey(wanted, UidOf(store[h].data))

(* C9, as stated: with DELETE_MISSING, a complete pass over the lessons of
   an interrupted pass leaves exactly one owned event per wanted uid in the
   window and no other owned event, whatever the calendar was. *)
C9_ConvergesFromAnyStore ==
    (pc = "done" /\ DELETE_MISSING /\ prev.outcome = "interrupted"
     /\ prev.tt = tt) => ExactlyWanted

(* C9, amended: the same, provided the window held at most one event per uid
   when the interrupted pass started, the window query of both passes
   answered, and no store call of the complete pass raised. *)
C9_Converges ==
    (pc = "done" /\ DELETE_MISSING /\ prev.outcome = "interrupted"
     /\ prev.tt = tt /\ prev.dupFree /\ prev.queryOk /\ queryOk
     /\ FailedCalls({"add", "save", "delete"}) = {}) => ExactlyWanted

\* a complete pass finished what an interrupted pass over two lessons began
C9_Witness ==
    /\ pc = "done" /\ DELETE_MISSING /\ prev.outcome = "interrupted"
    /\ prev.tt = tt /\ prev.dupFree /\ prev.queryOk /\ queryOk
    /\ FailedCalls({"add", "save", "delete"}) = {}
    /\ Len(wanted) = 2
    /\ OkCalls({"add"}) # {}

(* C10: a fetched lesson without 'id' gives no entry of wanted and no add or
   save: no wanted uid and no written uid is "untis-None@<server>". *)
C10_NoIdFiltered ==
    /\ \A k \in DOMAIN wanted : "id" \in DOMAIN wanted[k].lesson
    /\ \A k \in DOMAIN calls :
          calls[k].op \in {"add", "save"} => calls[k].uid[2] # "None"

----------------------------------------------------------------------------
(* The run, call by call (SpecRun) *)

\* the positions in net of the calls named call that ended as res
NetOf(call, res) ==
    {k \in DOMAIN net : net[k].call = call /\ net[k].res = res}

\* the positions in net of the calls named call
NetCalls(call) == {k \in DOMAIN net : net[k].call = call}

\* C11: a window query that raises ReportError leaves the pass with an empty
\* existing map and the pass goes on: whatever it calls afterwards is an add,
\* and it fails only if such an add raises.  A window query that raises
\* anything else ends the run with exit code 1 before any add, save or delete,
\* and the calendar is as the run found it.
C11_QueryFailure ==
    /\ NetOf("date_search", "ReportError") # {} =>
          /\ existing = <<>>
          /\ ~queryOk
          /\ \A k \in DOMAIN calls : calls[k].op = "add"
          /\ pc = "failed" => FailedCalls({"add"}) # {}
    /\ NetOf("date_search", "raise") # {} =>
          /\ pc = "failed"
          /\ ExitCode = 1
          /\ calls = <<>>
          /\ store = store0

\* the query raised something else than ReportError although lessons were
\* wanted and the calendar held an event
C11_Witness ==
    /\ NetOf("date_search", "raise") # {}
    /\ wanted # <<>>
    /\ store # <<>>
    /\ pc = "failed"

\* a call of the run raised and nothing in main caught it: any service call
\* but date_search with ReportError, make_calendar and delete, and the
\* fallback of connect_caldav when the account holds no calendar
Raised ==
    \/ \E k \in DOMAIN net :
          /\ net[k].res \in {"raise", "rejected"}
          /\ net[k].call # "make_calendar"
    \/ NetOf("make_calendar", "raise") # {} /\ cals = <<>>
    \/ FailedCalls({"add", "save"}) # {}

\* C12: with a required setting missing the process ends with exit code 2
\* and has called neither the timetable service nor the calendar store; with
\* every setting present, an uncaught failure ends it with exit code 1 and a
\* run that completes ends with exit code 0; no run has two of the outcomes.
C12_ExitCodes ==
    /\ (missing # {} /\ pc # "start") =>
          /\ ExitCode = 2
          /\ net = <<>>
          /\ calls = <<>>
    /\ ExitCode = 2 => missing # {}
    /\ Raised => ExitCode = 1
    /\ ExitCode = 1 => Raised /\ missing = {}
    /\ ExitCode = 0 => ~Raised /\ missing = {} /\ pc = "done"

\* the last setting main looks at is the missing one
C12_Witness == pc = "exit2" /\ missing = {"ICLOUD_PASS"}

\* connect_caldav ran as far as listing the calendars
Resolving == NetOf("calendars", "ok") # {}

\* the calendars of the account when connect_caldav was called
calsBefore ==
    IF NetOf("make_calendar", "ok") # {} THEN SubSeq(cals, 1, Len(cals) - 1)
    ELSE cals

\* C13 as stated: a calendar with the configured name is the one used and
\* none is created; without one a calendar is created and used; when the
\* creation fails an existing calendar is used and the run goes on; the
\* resolution fails only when the creation fails and no calendar exists.
C13_FindOrCreate ==
    Resolving =>
       LET named == {k \in DOMAIN calsBefore : calsBefore[k].name = ICLOUD_CAL}
       IN /\ named # {} =>
                /\ cal \in named
                /\ NetOf("make_calendar", "ok") = {}
          /\ (named = {} /\ NetOf("make_calendar", "ok") # {}) =>
                /\ cal = Len(cals)
                /\ cals[cal] = NamedCal
          /\ (named = {} /\ NetOf("make_calendar", "raise") # {}
                /\ calsBefore # <<>>) =>
                /\ cal \in DOMAIN calsBefore
                /\ pc = "failed" => NetCalls("date_search") # {}
          /\ cal = 0 =>
                /\ NetOf("make_calendar", "raise") # {}
                /\ calsBefore = <<>>
                /\ pc = "failed"

\* C13: the same with the calendars whose name can be read: a calendar whose
\* name reads as the configured name is the one used and none is created;
\* without one (a calendar whose name cannot be read counts as none) a
\* calendar is created and used; when the creation fails the first existing
\* calendar is used and the run goes on; the resolution fails only when the
\* creation fails and no calendar exists.
C13_Resolution ==
    Resolving =>
       LET named == {k \in DOMAIN calsBefore :
                       calsBefore[k].readable /\ calsBefore[k].name = ICLOUD_CAL}
       IN /\ named # {} =>
                /\ cal \in named
                /\ NetCalls("make_calendar") = {}
          /\ named = {} => NetCalls("make_calendar") # {}
          /\ (named = {} /\ NetOf("make_calendar", "ok") # {}) =>
                /\ cal = Len(cals)
                /\ cals[cal] = NamedCal
          /\ (named = {} /\ NetOf("make_calendar", "raise") # {}
                /\ calsBefore # <<>>) =>
                /\ cal = 1
                /\ pc = "failed" => NetCalls("date_search") # {}
          /\ cal = 0 =>
                /\ NetOf("make_calendar", "raise") # {}
                /\ calsBefore = <<>>
                /\ pc = "failed"

\* the creation failed, the run went on with the calendar of another name
\* and completed
C13_Witness ==
    /\ NetOf("make_calendar", "raise") # {}
    /\ cals = <<OtherCal>>
    /\ cal = 1
    /\ pc = "done"
    /\ calls # <<>>

\* C14: a getTimetable request the service rejects is followed by one more
\* request (the retry with the legacy method name) before the run ends.
C14_LegacyRetry ==
    \A k \in NetOf("getTimetable", "rejected") :
       pc = "failed" => k < Len(net)

----------------------------------------------------------------------------
(* The builder under every configuration (SpecBuild) *)

\* the content lines named STATUS
StatusLines(ics) == {k \in DOMAIN ics : ics[k].name = "STATUS"}

\* the serialization without its STATUS lines
DropStatus(ics) == SelectSeq(ics, LAMBDA l : l.name # "STATUS")

\* C15: a lesson whose cancelled flag is true or whose code is "cancelled"
\* is built with the one status line CANCELLED when MARK_CANCELLED is
\* enabled; with MARK_CANCELLED disabled it is built without a status line;
\* a lesson that is not cancelled never gets one.  Built at the same clock
\* value for the same server, a lesson has the same other lines with marking
\* enabled and disabled.
C15_CancelMarking ==
    /\ \A b \in built :
          LET l == b.lesson
              c == \/ ("cancelled" \in DOMAIN l /\ l.cancelled = TRUE)
                   \/ ("code" \in DOMAIN l /\ l.code = "cancelled")
          IN /\ (c /\ b.mark) =>
                   /\ Cardinality(StatusLines(b.ics)) = 1
                   /\ \A k \in StatusLines(b.ics) : b.ics[k].value = <<"CANCELLED">>
             /\ (c /\ ~b.mark) => StatusLines(b.ics) = {}
             /\ ~c => StatusLines(b.ics) = {}
    /\ \A a, b \in built :
          (a.lesson = b.lesson /\ a.server = b.server /\ a.clock = b.clock)
             => DropStatus(a.ics) = DropStatus(b.ics)

\* a lesson cancelled by its code was built with marking enabled and with
\* marking disabled
C15_Witness ==
    \E a, b \in built :
       /\ a.lesson = MkLesson(1, "101", "cancelled", FALSE)
       /\ b.lesson = a.lesson
       /\ a.server = b.server
       /\ a.clock = b.clock
       /\ a.mark
       /\ ~b.mark
       /\ a.ics # b.ics

\* the id of the lesson, 0 for a lesson without one (ids are positive)
IdOf(lesson) == IF "id" \in DOMAIN lesson THEN lesson.id ELSE 0

\* C16: uid_for returns the same uid for the same lesson id and server on
\* every call, and different uids when the lesson ids differ or the servers
\* differ.
C16_UidStable ==
    \A a, b \in built :
       (IdOf(a.lesson) = IdOf(b.lesson) /\ a.server = b.server) <=> a.uid = b.uid

\* lesson 1 was given a uid for both servers, at different clock values
C16_Witness ==
    \E a, b \in built :
       /\ IdOf(a.lesson) = 1
       /\ IdOf(b.lesson) = 1
       /\ a.server # b.server
       /\ a.clock # b.clock
       /\ a.uid # b.uid

----------------------------------------------------------------------------
(* The order of the calls of a run (SpecRun) *)

\* C17: a run makes at most one getTimetable request and at most one window
\* query; once it is in its loops or has made an add, save or delete, it has
\* made exactly one of each, the fetch before the query, and it makes no
\* other afterwards (the existing map is not read again); no add or save
\* follows a delete.
C17_PhaseOrder ==
    /\ Cardinality(NetCalls("getTimetable")) <= 1
    /\ Cardinality(NetCalls("date_search")) <= 1
    /\ (pc \in {"write", "delete", "done", "interrupted"} \/ calls # <<>>) =>
          /\ Cardinality(NetCalls("getTimetable")) = 1
          /\ Cardinality(NetCalls("date_search")) = 1
          /\ \A f \in NetCalls("getTimetable"), q \in NetCalls("date_search") :
                /\ f < q
                /\ q = Len(net)
    /\ \A j, k \in DOMAIN calls :
          (j < k /\ calls[j].op = "delete") => calls[k].op = "delete"

\* a completed run that added an event and then deleted another
C17_Witness ==
    /\ pc = "done"
    /\ OkCalls({"add"}) # {}
    /\ OkCalls({"delete"}) # {}

\* C18: when two lessons of one fetch get the same uid, wanted holds one
\* entry for that uid, its lesson is the later of the two in the order of
\* the fetch, and the run makes at most one add or save for the uid, with
\* the payload built from that lesson.
C18_LaterWins ==
    \A j, k \in DOMAIN tt :
       (j < k /\ uid_for(tt[j]) = uid_for(tt[k])) =>
          LET uid == uid_for(tt[k])
              same == {m \in DOMAIN tt : uid_for(tt[m]) = uid}
              last == CHOOSE m \in same : \A n \in same : n <= m
              writes == CallsOf("add", uid) \cup CallsOf("save", uid)
          IN /\ Cardinality({m \in DOMAIN wanted : wanted[m].uid = uid}) = 1
             /\ \A m \in DOMAIN wanted :
                   wanted[m].uid = uid => wanted[m].lesson = tt[last]
             /\ Cardinality(writes) <= 1
             /\ \A c \in writes : BuiltFrom(tt[last], calls[c].data)

\* the fetch listed lesson 1 twice, in room 101 and then in room 102, and
\* the run added the one event, of room 102
C18_Witness ==
    /\ tt = <<LessonA, LessonA2>>
    /\ pc = "done"
    /\ Len(calls) = 1
    /\ calls[1].op = "add"
    /\ BuiltFrom(LessonA2, calls[1].data)
    /\ ~BuiltFrom(LessonA, calls[1].data)

----------------------------------------------------------------------------
(* Duplicates (Spec) *)

\* no two live events of the calendar, in or out of the window, carry the
\* same owned uid
DupFreeOwned(st) ==
    \A g, h \in DOMAIN st :
       (st[g].live /\ st[h].live /\ Owned(st[g].data) /\ Owned(st[h].data)
        /\ UidOf(st[g].data) = UidOf(st[h].data)) => g = h

\* C19 as stated: the calendar, which holds at most one event per owned uid
\* before the first pass, holds at most one event per owned uid after every
\* step of every pass, whatever the window queries answer and wherever a
\* pass is interrupted.
C19_NoDuplicates == DupFreeOwned(store)

\* C19: a pass that starts with at most one event per owned uid in the
\* calendar and whose window query answers leaves at most one event per owned
\* uid after each of its steps, also when it is interrupted or a store call
\* raises.
C19_NoDuplicatesWhenAnswered ==
    (DupFreeOwned(store0) /\ queryOk) => DupFreeOwned(store)

\* a pass after an interrupted pass found the event that pass had added and
\* added the event that pass had not come to
C19_Witness ==
    /\ pc = "done"
    /\ queryOk
    /\ prev.outcome = "interrupted"
    /\ prev.queryOk
    /\ Len(wanted) = 2
    /\ Cardinality(OkCalls({"add"})) = 1
    /\ \E k \in DOMAIN existing : HasKey(wanted, existing[k].uid)
    /\ DupFreeOwned(store)

----------------------------------------------------------------------------
(* Two servers, one calendar (SpecServers) *)

\* the live events of the calendar that carry an owned uid of another server
\* than the one the running process is configured for
OfOtherServer(st) ==
    {h \in DOMAIN st : /\ st[h].live
                       /\ Owned(st[h].data)
                       /\ UidOf(st[h].data)[4] # UNTIS_SERVER}

\* C20 as stated: no step of a pass changes or removes an owned event whose
\* uid names another server than the one the pass is configured for.
C20_OtherServerUntouched ==
    [][\A h \in OfOtherServer(store) : store'[h] = store[h]]_vars

\* C20: no step of a pass changes the payload of an owned event whose uid
\* names another server; such an event is left as it is unless DELETE_MISSING
\* is enabled and the event is in the window, in which case the delete loop
\* removes it, its uid being no key of wanted.
C20_OtherServerOnlyDeleted ==
    [][\A h \in OfOtherServer(store) :
          \/ store'[h] = store[h]
          \/ /\ DELETE_MISSING
             /\ pc = "delete"
             /\ store[h].win
             /\ ~HasKey(wanted, UidOf(store[h].data))
             /\ store'[h] = Gone]_vars

\* a completed pass for one server has removed the event of lesson 1 that a
\* pass for the other server had added, while lesson 1 was wanted
C20_Witness ==
    /\ pc = "done"
    /\ tt = <<LessonA>>
    /\ \E k \in OkCalls({"delete"}) :
          /\ calls[k].uid[2] = "1"
          /\ calls[k].uid[4] # UNTIS_SERVER
          /\ store[calls[k].h] = Gone

====
